---- MODULE Spec2Model ----
(***************************************************************************)
(* Resource-object lifecycle of jkit (identity, deferred existence check,  *)
(* data fetches, paginated iteration) and the identifier codec, together   *)
(* with the constructors of the legacy JianshuResearchTools objects.       *)
(*                                                                         *)
(* Strings are sequences of tokens.  The scheme-and-host part of a URL is  *)
(* the single token Host; every other token is one character.              *)
(***************************************************************************)
EXTENDS Integers, Sequences, FiniteSets, TLC

\* ------------------------------------------------------------------ bounds
MaxObjs  == 1     \* resource objects the sequential caller builds
MaxPage  == 2     \* pages with items a listing is served
SlugLen  == 2     \* length of a well-formed slug
MaxId    == 11    \* largest notebook id tried
MaxPayLen == 3    \* longest pay_types text tried
MaxSets  == 2     \* assignments to the data sources' configs in one run
MaxReqs  == 2     \* requests sent through the client pool in one run
MaxDay   == 4     \* latest day tried as today, in days after 2020-06-20

\* ----------------------------------------------------------------- strings
Host == "https://www.jianshu.com"

SlugKinds == {"user", "article", "collection", "island"}
Kinds     == SlugKinds \cup {"notebook"}

\* the path segment that names the kind: /u/ /p/ /c/ /g/ /nb/
KindPath(kind) ==
    CASE kind = "user"       -> <<"u">>
      [] kind = "article"    -> <<"p">>
      [] kind = "collection" -> <<"c">>
      [] kind = "island"     -> <<"g">>
      [] kind = "notebook"   -> <<"n", "b">>

\* f"https://www.jianshu.com/u/" and its siblings
UrlPrefix(kind) == <<Host, "/">> \o KindPath(kind) \o <<"/">>

\* str.replace(old, ""): every non-overlapping occurrence, left to right
RECURSIVE Remove(_, _)
Remove(x, old) ==
    IF Len(x) < Len(old) \/ Len(old) = 0 THEN x
    ELSE IF SubSeq(x, 1, Len(old)) = old
         THEN Remove(SubSeq(x, Len(old) + 1, Len(x)), old)
         ELSE <<x[1]>> \o Remove(Tail(x), old)

Digits == <<"0", "1", "2", "3", "4", "5", "6", "7", "8", "9">>

IsDigit(c) == \E d \in 1..10 : Digits[d] = c

DigitValue(c) == (CHOOSE d \in 1..10 : Digits[d] = c) - 1

\* str(int) of a non-negative integer
RECURSIVE IntToStr(_)
IntToStr(n) ==
    IF n < 10 THEN <<Digits[n + 1]>>
    ELSE IntToStr(n \div 10) \o <<Digits[(n % 10) + 1]>>

\* int(str) of a string of decimal digits
RECURSIVE StrToInt(_)
StrToInt(s) ==
    IF Len(s) = 0 THEN 0
    ELSE 10 * StrToInt(SubSeq(s, 1, Len(s) - 1)) + DigitValue(s[Len(s)])

\* a call that returns v, a call that raises e
Ok(v)    == [err |-> "", val |-> v]
Raise(e) == [err |-> e, val |-> <<>>]

\* an optional argument: None, or a value
None    == [some |-> FALSE, val |-> <<>>]
Some(v) == [some |-> TRUE, val |-> v]

\* ------------------------------------------------------- identifier_check
\* jkit.identifier_check: a slug is SlugLen letters or digits; a URL is the
\* kind's canonical prefix, a slug and at most one closing "/"; a notebook
\* id is a positive integer.
Letters == {"a", "b", "c", "g", "n", "p", "u"}

IsAlnum(c) == c \in Letters \/ IsDigit(c)

IsSlugText(x) == Len(x) = SlugLen /\ \A i \in 1..Len(x) : IsAlnum(x[i])

IsIdText(x) ==
    /\ Len(x) > 0
    /\ \A i \in 1..Len(x) : IsDigit(x[i])
    /\ StrToInt(x) > 0

\* x starts with the prefix and goes on
HasPrefix(prefix, x) ==
    Len(x) > Len(prefix) /\ SubSeq(x, 1, Len(prefix)) = prefix

\* what follows the prefix in x, without one closing "/"
UrlBody(prefix, x) ==
    LET rest == SubSeq(x, Len(prefix) + 1, Len(x))
    IN  IF rest[Len(rest)] = "/" THEN SubSeq(rest, 1, Len(rest) - 1) ELSE rest

\* x is prefix + slug, or prefix + slug + "/"
IsSlugUrl(prefix, x) == HasPrefix(prefix, x) /\ IsSlugText(UrlBody(prefix, x))

is_user_slug(x)       == IsSlugText(x)
is_article_slug(x)    == IsSlugText(x)
is_collection_slug(x) == IsSlugText(x)
is_island_slug(x)     == IsSlugText(x)
is_notebook_id(x)     == x > 0

is_user_url(x)       == IsSlugUrl(<<Host, "/", "u", "/">>, x)
is_article_url(x)    == IsSlugUrl(<<Host, "/", "p", "/">>, x)
is_collection_url(x) == IsSlugUrl(<<Host, "/", "c", "/">>, x)
is_island_url(x)     == IsSlugUrl(<<Host, "/", "g", "/">>, x)
is_notebook_url(x)   ==
    /\ HasPrefix(<<Host, "/", "n", "b", "/">>, x)
    /\ IsIdText(UrlBody(<<Host, "/", "n", "b", "/">>, x))

\* ----------------------------------------------------- identifier_convert
user_url_to_slug(x) ==
    IF ~is_user_url(x) THEN Raise("ValueError")
    ELSE Ok(Remove(Remove(x, <<Host, "/", "u", "/">>), <<"/">>))

\* a copy of the article converter left under the user's name
user_slug_to_url_pasted(x) ==
    IF ~is_user_slug(x) THEN Raise("ValueError")
    ELSE Ok(<<Host, "/", "p", "/">> \o x)

user_slug_to_url(x) ==
    IF ~is_user_slug(x) THEN Raise("ValueError")
    ELSE Ok(<<Host, "/", "u", "/">> \o x)

article_url_to_slug(x) ==
    IF ~is_article_url(x) THEN Raise("ValueError")
    ELSE Ok(Remove(Remove(x, <<Host, "/", "p", "/">>), <<"/">>))

article_slug_to_url(x) ==
    IF ~is_article_slug(x) THEN Raise("ValueError")
    ELSE Ok(<<Host, "/", "p", "/">> \o x)

notebook_url_to_id(x) ==
    IF ~is_notebook_url(x) THEN Raise("ValueError")
    ELSE Ok(StrToInt(Remove(Remove(x, <<Host, "/", "n", "b", "/">>), <<"/">>)))

notebook_id_to_url(x) ==
    IF ~is_notebook_id(x) THEN Raise("ValueError")
    ELSE Ok(<<Host, "/", "n", "b", "/">> \o IntToStr(x))

collection_url_to_slug(x) ==
    IF ~is_collection_url(x) THEN Raise("ValueError")
    ELSE Ok(Remove(Remove(x, <<Host, "/", "c", "/">>), <<"/">>))

collection_slug_to_url(x) ==
    IF ~is_collection_slug(x) THEN Raise("ValueError")
    ELSE Ok(<<Host, "/", "c", "/">> \o x)

island_url_to_slug(x) ==
    IF ~is_island_url(x) THEN Raise("ValueError")
    ELSE Ok(Remove(Remove(x, <<Host, "/", "g", "/">>), <<"/">>))

island_slug_to_url(x) ==
    IF ~is_island_slug(x) THEN Raise("ValueError")
    ELSE Ok(<<Host, "/", "g", "/">> \o x)

\* the class attributes _slug_check_func, _url_to_slug_func and
\* _slug_to_url_func of each slug-identified resource class
_slug_check_func(kind, x) ==
    CASE kind = "user"       -> is_user_slug(x)
      [] kind = "article"    -> is_article_slug(x)
      [] kind = "collection" -> is_collection_slug(x)
      [] kind = "island"     -> is_island_slug(x)

_url_to_slug_func(kind, x) ==
    CASE kind = "user"       -> user_url_to_slug(x)
      [] kind = "article"    -> article_url_to_slug(x)
      [] kind = "collection" -> collection_url_to_slug(x)
      [] kind = "island"     -> island_url_to_slug(x)

_slug_to_url_func(kind, x) ==
    CASE kind = "user"       -> user_slug_to_url(x)
      [] kind = "article"    -> article_slug_to_url(x)
      [] kind = "collection" -> collection_slug_to_url(x)
      [] kind = "island"     -> island_slug_to_url(x)

\* SlugAndUrlMixin._check_params: the slug the new object gets, or the error
_check_params(kind, slug, url) ==
    IF slug.some /\ url.some THEN Raise("ValueError")
    ELSE IF slug.some
         THEN IF ~_slug_check_func(kind, slug.val) THEN Raise("ValueError")
              ELSE Ok(slug.val)
    ELSE IF url.some THEN _url_to_slug_func(kind, url.val)
    ELSE Raise("ValueError")

\* ---------------------------------------------------------------- state
VARIABLES
    objs,                   \* the resource objects built so far, in order
    auto_check,             \* CONFIG.resource_check.auto_check
    force_check_safe_data,  \* CONFIG.resource_check.force_check_safe_data
    tasks,                  \* each coroutine: the call it runs and where it is
    call,                   \* the latest call of a pure routine and its result
    data_validation,        \* CONFIG.data_validation.enabled
    gen,                    \* the data operation under way: a listing's
                            \* generator, a record fetch or a wallet conversion
    net,                    \* the data sources' configs, DATASOURCE_CLIENTS
                            \* and the requests under way
    legacy                  \* the legacy package: DISABLE_CACHE, one cached
                            \* method's cache_Dict and its latest call

vars == <<objs, auto_check, force_check_safe_data, tasks, call,
          data_validation, gen, net, legacy>>

\* the caller's coroutines; a sequential caller runs everything in Main
Tasks == {"main", "other"}
Main  == {"main"}

\* identities the callers and the records use
SomeSlugs == {[i \in 1..SlugLen |-> "a"], [i \in 1..SlugLen |-> "1"]}
SomeIds   == {1, MaxId}

\* what the server answers to one request
Replies == {"ok", "empty", "unavailable", "status_error", "transport_error"}

\* reqs: the requests the call has sent; replies: the answers it has got
Idle == [op |-> "idle", obj |-> 0, pc |-> "idle", reqs |-> <<>>,
         replies |-> <<>>, page |-> 0, result |-> ""]

NoCall == [fn |-> "none", kind |-> "", slug |-> None, url |-> None,
           err |-> "", val |-> <<>>]

\* a key of a decoded payload: absent, or present with a number
Absent     == [some |-> FALSE, val |-> 0]
Present(v) == [some |-> TRUE, val |-> v]

\* no data operation has been called yet.  args: the arguments of the
\* call; reqs: the requests sent, in
\* order; replies: the answers received; buffer: the items of the current
\* page not yet reached; yielded: the records handed to the caller
NoGen == [fn |-> "none", pc |-> "idle",
          args |-> [start_page |-> 0, min_id |-> 0, max_id |-> Absent,
                    amount |-> 0],
          reqs |-> <<>>,
          replies |-> <<>>, buffer |-> <<>>, yielded |-> <<>>,
          cursor |-> Absent, result |-> ""]

\* CheckableMixin.__init__ after the identity is stored; safe records that
\* the object was built by a record's conversion method
NewObject(kind, ident) ==
    [kind |-> kind, ident |-> ident, checked |-> FALSE, safe |-> FALSE]

\* _require_check that does not read the auto_check policy
NeedsCheckIgnoringPolicy(o) == ~o.checked

\* the guard of _require_check: is check() to be awaited
NeedsCheck(o) == ~(o.checked \/ ~auto_check)

\* _as_checked with the policy ignored
AsCheckedAlways(o) == [o EXCEPT !.checked = TRUE]

\* CheckableMixin._as_checked
_as_checked(o) ==
    IF ~force_check_safe_data THEN [o EXCEPT !.checked = TRUE] ELSE o

\* check() that clears the flag when the request fails
AfterCheckClearing(o, r) == [o EXCEPT !.checked = (r = "ok")]

\* check() that sets the flag in a finally clause
AfterCheckAlways(o, r) == [o EXCEPT !.checked = TRUE]

\* check() that runs the identity initialiser again, which blanks _slug
AfterCheckReinit(o, r) ==
    IF r = "ok" THEN [o EXCEPT !.checked = TRUE, !.ident = <<>>] ELSE o

\* check() and _require_check that never set the flag
AfterCheckForgetting(o, r) == o

\* the object after check() got reply r: the else branch sets _checked
AfterCheck(o, r) == IF r = "ok" THEN [o EXCEPT !.checked = TRUE] ELSE o

\* check() that re-raises every status error as it came
CheckResultRaw(r) ==
    CASE r = "ok"              -> "ok"
      [] r = "unavailable"     -> "HTTPStatusError"
      [] r = "status_error"    -> "HTTPStatusError"
      [] r = "transport_error" -> "TransportError"

\* how check() ends on reply r
CheckResult(r) ==
    CASE r = "ok"              -> "ok"
      [] r = "unavailable"     -> "ResourceUnavailableError"
      [] r = "status_error"    -> "HTTPStatusError"
      [] r = "transport_error" -> "TransportError"

\* how send_request ends on reply r: raise_for_status, else the payload
SendResult(r) ==
    CASE r \in {"ok", "empty"}                -> "ok"
      [] r \in {"unavailable", "status_error"} -> "HTTPStatusError"
      [] r = "transport_error"                -> "TransportError"

\* the data sources send_request can address
Sources == {"JIANSHU", "JPEP"}

\* the fields of _DatasourceConfig a caller assigns, and sample values;
\* proxy "" is None, and httpx knows no proxy of scheme ftp
SomeSettings ==
    {<<"endpoint", "https://www.jianshu.com">>,
     <<"endpoint", "https://20221023.jianshubei.com/api">>,
     <<"http_version", "1">>, <<"http_version", "2">>,
     <<"proxy", "">>, <<"proxy", "http://proxy">>, <<"proxy", "ftp://proxy">>}

\* CONFIG.datasources as _Config builds it
DefaultConfig(ds) ==
    [endpoint |-> IF ds = "JIANSHU" THEN "https://www.jianshu.com"
                  ELSE "https://20221023.jianshubei.com/api",
     http_version |-> IF ds = "JIANSHU" THEN "2" ELSE "1", proxy |-> ""]

\* _get_httpx_client that builds every client from the defaults
_get_httpx_client_default(cfg, id) ==
    IF cfg.proxy = "ftp://proxy" THEN Raise("ValueError")
    ELSE Ok([id |-> id, base_url |-> "https://www.jianshu.com",
             http2 |-> TRUE, proxy |-> ""])

\* _DatasourceConfig._get_httpx_client: the id-th AsyncClient made, or the
\* error of AsyncClient's constructor
_get_httpx_client(cfg, id) ==
    IF cfg.proxy = "ftp://proxy" THEN Raise("ValueError")
    ELSE Ok([id |-> id, base_url |-> cfg.endpoint,
             http2 |-> (cfg.http_version = "2"), proxy |-> cfg.proxy])

\* the module state once jkit._network is imported: the default configs,
\* DATASOURCE_CLIENTS built from them, no request sent, no assignment made
NoNet ==
    [config   |-> [ds \in Sources |-> DefaultConfig(ds)],
     clients  |-> [ds \in Sources |->
                      _get_httpx_client(DefaultConfig(ds),
                                        IF ds = "JIANSHU" THEN 1 ELSE 2).val],
     made     |-> 2,
     sets     |-> 0,
     err      |-> "",
     requests |-> <<>>]

\* the URLs of the legacy User objects whose cached method is called
SomeUserUrls == {"https://www.jianshu.com/u/aa", "https://www.jianshu.com/u/bb"}

\* the legacy package as imported: DISABLE_CACHE False, the cache_Dict of
\* the decorated method empty (no key has a value), no call made.  last is
\* the latest call: the object's URL, whether func was invoked, and how the
\* call ended; n tells one call from the next
NoLegacy ==
    [DISABLE_CACHE |-> FALSE,
     cache_Dict    |-> [u \in SomeUserUrls |-> Absent],
     last          |-> [url |-> "", invoked |-> FALSE, err |-> "",
                        val |-> 0, n |-> 0]]

Init ==
    /\ objs = <<>>
    /\ auto_check = TRUE
    /\ force_check_safe_data = FALSE
    /\ tasks = [t \in Tasks |-> Idle]
    /\ call = NoCall
    /\ data_validation = TRUE
    /\ gen = NoGen
    /\ net = NoNet
    /\ legacy = NoLegacy

\* ------------------------------------------------------------ construction
Free(t) == tasks[t].pc \in {"idle", "done"}

\* User.from_slug / Collection.from_slug
from_slug(kind, slug) ==
    /\ Len(objs) < MaxObjs
    /\ LET r == _check_params(kind, Some(slug), None)
       IN  /\ r.err = ""
           /\ objs' = Append(objs, NewObject(kind, r.val))
    /\ UNCHANGED <<auto_check, force_check_safe_data, tasks, call, data_validation, gen, net, legacy>>

\* User.from_url / Collection.from_url
from_url(kind, url) ==
    /\ Len(objs) < MaxObjs
    /\ LET r == _check_params(kind, None, Some(url))
       IN  /\ r.err = ""
           /\ objs' = Append(objs, NewObject(kind, r.val))
    /\ UNCHANGED <<auto_check, force_check_safe_data, tasks, call, data_validation, gen, net, legacy>>

\* Notebook.from_id
from_id(id) ==
    /\ Len(objs) < MaxObjs
    /\ is_notebook_id(id)
    /\ objs' = Append(objs, NewObject("notebook", id))
    /\ UNCHANGED <<auto_check, force_check_safe_data, tasks, call, data_validation, gen, net, legacy>>

\* X.from_slug(self.slug) inside a record's conversion method
FromRecord(kind, ident) == [NewObject(kind, ident) EXCEPT !.safe = TRUE]

\* OwnerInfoField.to_user_obj and the other to_user_obj methods
to_user_obj(slug) ==
    /\ Len(objs) < MaxObjs
    /\ objs' = Append(objs, _as_checked(FromRecord("user", slug)))
    /\ UNCHANGED <<auto_check, force_check_safe_data, tasks, call, data_validation, gen, net, legacy>>

\* CollectionArticleInfo.to_article_obj and the other to_article_obj methods
to_article_obj(slug) ==
    /\ Len(objs) < MaxObjs
    /\ objs' = Append(objs, _as_checked(FromRecord("article", slug)))
    /\ UNCHANGED <<auto_check, force_check_safe_data, tasks, call, data_validation, gen, net, legacy>>

\* UserCollectionInfo.to_collection_obj
to_collection_obj(slug) ==
    /\ Len(objs) < MaxObjs
    /\ objs' = Append(objs, _as_checked(FromRecord("collection", slug)))
    /\ UNCHANGED <<auto_check, force_check_safe_data, tasks, call, data_validation, gen, net, legacy>>

\* UserNotebookInfo.to_notebook_obj: Notebook.from_id(self.id), nothing more
to_notebook_obj(id) ==
    /\ Len(objs) < MaxObjs
    /\ objs' = Append(objs, FromRecord("notebook", id))
    /\ UNCHANGED <<auto_check, force_check_safe_data, tasks, call, data_validation, gen, net, legacy>>

\* ------------------------------------------------------------------ config
SetAutoCheck(b) ==
    /\ auto_check # b
    /\ auto_check' = b
    /\ UNCHANGED <<objs, force_check_safe_data, tasks, call, data_validation, gen, net, legacy>>

SetForceCheckSafeData(b) ==
    /\ force_check_safe_data # b
    /\ force_check_safe_data' = b
    /\ UNCHANGED <<objs, auto_check, tasks, call, data_validation, gen, net, legacy>>

\* --------------------------------------------------- check and data fetches
\* the classes whose check, info and iter_* methods are modelled
Fetchable(o) == objs[o].kind \in {"user", "collection", "notebook"}

Running(op, o, pc, reqs, page) ==
    [op |-> op, obj |-> o, pc |-> pc, reqs |-> reqs, replies |-> <<>>,
     page |-> page, result |-> ""]

\* a call that sends its failed request once more before it gives up
EndedRetrying(t, r, res) ==
    IF res # "ok" /\ Len(tasks[t].replies) < Len(tasks[t].reqs) /\ Len(tasks[t].reqs) < 3
    THEN [tasks[t] EXCEPT !.replies = Append(@, r),
                          !.reqs = Append(@, @[Len(@)])]
    ELSE [tasks[t] EXCEPT !.pc = "done", !.replies = Append(@, r),
                          !.result = res]

\* the call of task t got reply r and ends with result res
Ended(t, r, res) ==
    [tasks[t] EXCEPT !.pc = "done", !.replies = Append(@, r), !.result = res]

\* the call of task t got reply r and sends its next data request
Continued(t, r, page) ==
    [tasks[t] EXCEPT !.pc = "data_wait", !.replies = Append(@, r),
                     !.reqs = Append(@, "data"), !.page = page]

\* User.check / Collection.check / Notebook.check up to the await
check(t, o) ==
    /\ Free(t)
    /\ o \in 1..Len(objs)
    /\ Fetchable(o)
    /\ tasks' = [tasks EXCEPT ![t] = Running("check", o, "check_wait", <<"check">>, 0)]
    /\ UNCHANGED <<objs, auto_check, force_check_safe_data, call, data_validation, gen, net, legacy>>

\* check() that marks every object of the same kind and slug as checked
check_reply_shared(t, r) ==
    /\ tasks[t].pc = "check_wait"
    /\ r # "empty"
    /\ objs' = [i \in 1..Len(objs) |->
                   IF /\ objs[i].kind = objs[tasks[t].obj].kind
                      /\ objs[i].ident = objs[tasks[t].obj].ident
                   THEN AfterCheck(objs[i], r) ELSE objs[i]]
    /\ tasks' = [tasks EXCEPT ![t] = Ended(t, r, CheckResult(r))]
    /\ UNCHANGED <<auto_check, force_check_safe_data, call, data_validation,
                   gen, net, legacy>>

\* check() resumes with the reply to its request
check_reply(t, r) ==
    /\ tasks[t].pc = "check_wait"
    /\ r # "empty"
    /\ objs' = [objs EXCEPT ![tasks[t].obj] = AfterCheck(@, r)]
    /\ tasks' = [tasks EXCEPT ![t] = Ended(t, r, CheckResult(r))]
    /\ UNCHANGED <<auto_check, force_check_safe_data, call, data_validation, gen, net, legacy>>

\* a data fetch up to its first await: _require_check, which either awaits
\* check() or returns at once, and then the data request
Fetch(t, o, op, page) ==
    /\ Free(t)
    /\ o \in 1..Len(objs)
    /\ Fetchable(o)
    /\ tasks' = [tasks EXCEPT ![t] =
                    IF NeedsCheck(objs[o])
                    THEN Running(op, o, "rc_wait", <<"check">>, page)
                    ELSE Running(op, o, "data_wait", <<"data">>, page)]
    /\ UNCHANGED <<objs, auto_check, force_check_safe_data, call, data_validation, gen, net, legacy>>

\* User.info / Collection.info / Notebook.info
info(t, o) == Fetch(t, o, "info", 0)

\* Collection.iter_articles, User.iter_owned_collections and the other
\* page-number listings, from the first __anext__
iter_articles(t, o, start_page) == Fetch(t, o, "iter", start_page)

\* _require_check resumes with the reply to check()'s request; on success it
\* sets the flag and the fetch sends its data request
require_check_reply(t, r) ==
    /\ tasks[t].pc = "rc_wait"
    /\ r # "empty"
    /\ objs' = [objs EXCEPT ![tasks[t].obj] = AfterCheck(@, r)]
    /\ tasks' = [tasks EXCEPT ![t] =
                    IF CheckResult(r) = "ok"
                    THEN Continued(t, r, tasks[t].page)
                    ELSE Ended(t, r, CheckResult(r))]
    /\ UNCHANGED <<auto_check, force_check_safe_data, call, data_validation, gen, net, legacy>>

\* info resumes with the reply to its data request
info_reply(t, r) ==
    /\ tasks[t].pc = "data_wait"
    /\ tasks[t].op = "info"
    /\ r # "empty"
    /\ tasks' = [tasks EXCEPT ![t] = Ended(t, r, SendResult(r))]
    /\ UNCHANGED <<objs, auto_check, force_check_safe_data, call, data_validation, gen, net, legacy>>

\* a listing resumes with a page: an empty page ends it, a page with items
\* is yielded and the next page is requested
iter_reply(t, r) ==
    /\ tasks[t].pc = "data_wait"
    /\ tasks[t].op = "iter"
    /\ r = "ok" => tasks[t].page < MaxPage
    /\ tasks' = [tasks EXCEPT ![t] =
                    IF r = "ok"
                    THEN Continued(t, r, tasks[t].page + 1)
                    ELSE Ended(t, r, SendResult(r))]
    /\ UNCHANGED <<objs, auto_check, force_check_safe_data, call, data_validation, gen, net, legacy>>

\* ------------------------------------------------------------------- Next
Next ==
    \/ \E k \in {"user", "collection"}, s \in SomeSlugs : from_slug(k, s)
    \/ \E k \in {"user", "collection"}, s \in SomeSlugs, e \in {<<>>, <<"/">>} :
          from_url(k, _slug_to_url_func(k, s).val \o e)
    \/ \E i \in SomeIds : from_id(i)
    \/ \E s \in SomeSlugs : to_user_obj(s)
    \/ \E s \in SomeSlugs : to_article_obj(s)
    \/ \E s \in SomeSlugs : to_collection_obj(s)
    \/ \E i \in SomeIds : to_notebook_obj(i)
    \/ \E b \in BOOLEAN : SetAutoCheck(b)
    \/ \E b \in BOOLEAN : SetForceCheckSafeData(b)
    \/ \E t \in Main, o \in 1..MaxObjs : check(t, o)
    \/ \E t \in Main, o \in 1..MaxObjs : info(t, o)
    \/ \E t \in Main, o \in 1..MaxObjs, p \in 1..MaxPage : iter_articles(t, o, p)
    \/ \E t \in Main, r \in Replies : check_reply(t, r)
    \/ \E t \in Main, r \in Replies : require_check_reply(t, r)
    \/ \E t \in Main, r \in Replies : info_reply(t, r)
    \/ \E t \in Main, r \in Replies : iter_reply(t, r)

Spec == Init /\ [][Next]_vars

\* ------------------------------------------------------ equality and hash
\* SlugAndUrlMixin.__eq__
SlugAndUrlMixin_eq(self, other) ==
    other.kind = self.kind /\ self.ident = other.ident

\* IdAndUrlMixin.__eq__
IdAndUrlMixin_eq(self, other) ==
    other.kind = self.kind /\ self.ident = other.ident

\* a == b for two jkit resource objects
ObjEq(a, b) ==
    IF a.kind = "notebook" THEN IdAndUrlMixin_eq(a, b)
    ELSE SlugAndUrlMixin_eq(a, b)

\* hash(a): both mixins define __eq__ and no __hash__, so the class has
\* __hash__ = None and hash() raises TypeError
ObjHash(a) == Raise("TypeError")

\* ------------------------------------------- JianshuResearchTools.objects
\* Python truthiness of an optional string argument
Truthy(arg) == arg.some /\ arg.val # <<>>

\* assert_funcs.AssertUserUrl and its siblings: does the URL pass
AssertUrl(kind, x) ==
    CASE kind = "user"       -> is_user_url(x)
      [] kind = "article"    -> is_article_url(x)
      [] kind = "collection" -> is_collection_url(x)
      [] kind = "island"     -> is_island_url(x)
      [] kind = "notebook"   -> is_notebook_url(x)

\* convert.UserSlugToUserUrl and its siblings
LegacySlugToUrl(kind, x) == UrlPrefix(kind) \o x

\* convert.UserUrlToUserSlug and its siblings
LegacyUrlToSlug(kind, x) == Remove(Remove(x, UrlPrefix(kind)), <<"/">>)

\* User.__init__, Article.__init__, Notebook.__init__, Collection.__init__
\* and Island.__init__ of the legacy objects: the _url stored, or the error
legacy_init(kind, url, slug) ==
    IF Truthy(slug) /\ Truthy(url) THEN Raise("InputError")
    ELSE IF Truthy(url)
         THEN IF AssertUrl(kind, url.val) THEN Ok(url.val)
              ELSE Raise("InputError")
    ELSE IF Truthy(slug)
         THEN IF AssertUrl(kind, LegacySlugToUrl(kind, slug.val))
              THEN Ok(LegacySlugToUrl(kind, slug.val))
              ELSE Raise("InputError")
    ELSE Raise("InputError")

\* ------------------------------------------------- payment channel decoding
\* str.split(sep) of a string of one-character tokens
RECURSIVE Split(_, _)
Split(s, sep) ==
    IF \A i \in 1..Len(s) : s[i] # sep THEN <<s>>
    ELSE LET i == CHOOSE j \in 1..Len(s) :
                      s[j] = sep /\ \A k \in 1..(j - 1) : s[k] # sep
         IN  <<SubSeq(s, 1, i - 1)>> \o Split(SubSeq(s, i + 1, Len(s)), sep)

\* the keys of the channel dict of iter_orders, in the order it lists them
PaymentChannels == <<"WECHAT_PAY", "ALIPAY", "ANT_CREDIT_PAY">>

\* {1: ..., 2: ..., 3: ...}[int(x)] for one piece x of pay_types
RECURSIVE DecodeChannels(_)
DecodeChannels(pieces) ==
    IF Len(pieces) = 0 THEN Ok(<<>>)
    ELSE LET x == pieces[1]
         IN  IF Len(x) = 0 \/ \E i \in 1..Len(x) : ~IsDigit(x[i])
             THEN Raise("ValueError")
             ELSE IF StrToInt(x) \notin 1..Len(PaymentChannels)
             THEN Raise("KeyError")
             ELSE LET rest == DecodeChannels(Tail(pieces))
                  IN  IF rest.err # "" THEN rest
                      ELSE Ok(<<PaymentChannels[StrToInt(x)]>> \o rest.val)

\* the supported_payment_channels argument in iter_orders: the subscript
\* item_user["pay_types"], its truth test, the split and the lookups
supported_payment_channels(pay_types) ==
    IF ~pay_types.some THEN Raise("KeyError")
    ELSE IF Len(pay_types.val) = 0 THEN Ok(<<>>)
    ELSE DecodeChannels(Split(pay_types.val, "|"))

\* --------------------------------------------------- calls of pure routines
InputChars == {"a", "1", "/"}

\* every string over InputChars one longer than a slug at most
Texts == UNION {[1..n -> InputChars] : n \in 0..(SlugLen + 1)}

UrlTexts == Texts \cup {UrlPrefix(k) \o x : k \in Kinds, x \in Texts}

SlugArgs == {None} \cup {Some(x) : x \in Texts}
UrlArgs  == {None} \cup {Some(x) : x \in UrlTexts}

\* the states a resource object can be in
ObjStates ==
    {[kind |-> k, ident |-> i, checked |-> c, safe |-> f] :
        k \in SlugKinds, i \in SomeSlugs, c \in BOOLEAN, f \in BOOLEAN}
    \cup
    {[kind |-> "notebook", ident |-> i, checked |-> c, safe |-> f] :
        i \in SomeIds, c \in BOOLEAN, f \in BOOLEAN}

Fresh == call.fn = "none"

Pure(c) ==
    /\ call' = c
    /\ UNCHANGED <<objs, auto_check, force_check_safe_data, tasks, data_validation, gen, net, legacy>>

\* cls(slug=..., url=...) of a jkit slug-identified class: the validation
\* routine decides the slug or the error
call_check_params(kind, slug, url) ==
    LET r == _check_params(kind, slug, url)
    IN  Pure([fn |-> "_check_params", kind |-> kind, slug |-> slug,
              url |-> url, err |-> r.err, val |-> r.val])

\* User(...), Article(...), ... of the legacy objects; val is .slug
call_legacy_init(kind, url, slug) ==
    LET r == legacy_init(kind, url, slug)
    IN  Pure([fn |-> "legacy_init", kind |-> kind, slug |-> slug,
              url |-> url, err |-> r.err,
              val |-> IF r.err = "" THEN LegacyUrlToSlug(kind, r.val) ELSE <<>>])

call_slug_to_url(kind, x) ==
    LET r == _slug_to_url_func(kind, x)
    IN  Pure([fn |-> "slug_to_url", kind |-> kind, arg |-> x,
              err |-> r.err, val |-> r.val])

call_url_to_slug(kind, x) ==
    LET r == _url_to_slug_func(kind, x)
    IN  Pure([fn |-> "url_to_slug", kind |-> kind, arg |-> x,
              err |-> r.err, val |-> r.val])

call_notebook_id_to_url(x) ==
    LET r == notebook_id_to_url(x)
    IN  Pure([fn |-> "id_to_url", kind |-> "notebook", arg |-> x,
              err |-> r.err, val |-> r.val])

call_notebook_url_to_id(x) ==
    LET r == notebook_url_to_id(x)
    IN  Pure([fn |-> "url_to_id", kind |-> "notebook", arg |-> x,
              err |-> r.err, val |-> r.val])

\* a == b, hash(a) and hash(b) of two resource objects
call_eq(a, b) ==
    Pure([fn |-> "eq", a |-> a, b |-> b, eq |-> ObjEq(a, b),
          hash_a |-> ObjHash(a), hash_b |-> ObjHash(b)])

\* the pay_types texts a market order's user record can carry
PayArgs ==
    {None} \cup {Some(x) : x \in UNION {[1..n -> {"1", "2", "3", "4", "|"}] :
                                            n \in 0..MaxPayLen}}

\* the supported_payment_channels argument evaluated for one user record
call_supported_payment_channels(pay_types) ==
    LET r == supported_payment_channels(pay_types)
    IN  Pure([fn |-> "pay_types", kind |-> "", arg |-> pay_types,
              err |-> r.err, val |-> r.val])

\* the legacy objects a caller can build: the constructors accept only a
\* URL of their own kind
LegacyObjs ==
    {[kind |-> k, url |-> LegacySlugToUrl(k, x)] : k \in SlugKinds, x \in SomeSlugs}
    \cup {[kind |-> "notebook", url |-> notebook_id_to_url(i).val] : i \in SomeIds}

\* User.__eq__, Article.__eq__, Notebook.__eq__, Collection.__eq__ and
\* Island.__eq__: an isinstance test, then the URLs; Island's test names
\* Collection
legacy_eq(self, other) ==
    LET cls == IF self.kind = "island" THEN "collection" ELSE self.kind
    IN  IF other.kind # cls THEN FALSE
        ELSE self.url = other.url

\* __hash__ of the five classes: the hash of the URL string, which is the
\* same for the same string
legacy_hash(self) == Ok(self.url)

\* a == b, hash(a) and hash(b) of two legacy objects
call_legacy_eq(a, b) ==
    Pure([fn |-> "legacy_eq", a |-> a, b |-> b, eq |-> legacy_eq(a, b),
          hash_a |-> legacy_hash(a), hash_b |-> legacy_hash(b)])

\* ArticleEarningRanking.__init__ with the upper test made inclusive
ranking_init_inclusive(target_date, now1, now2) ==
    LET d == IF ~target_date.some THEN now1 - 1 ELSE target_date.val
    IN  IF d < 0 THEN [err |-> "APIUnsupportedError", val |-> 0]
        ELSE IF d > now2 THEN [err |-> "ValueError", val |-> 0]
        ELSE [err |-> "", val |-> d]

\* ArticleEarningRanking.__init__ / UserEarningRanking.__init__.  Dates are
\* counted in days from 2020-06-20, which is day 0; now1 and now2 are the
\* dates the two reads of datetime.now() give.  The result is the stored
\* _target_date or the error raised
ranking_init(target_date, now1, now2) ==
    LET d == IF ~target_date.some THEN now1 - 1 ELSE target_date.val
    IN  IF d < 0 THEN [err |-> "APIUnsupportedError", val |-> 0]
        ELSE IF d >= now2 THEN [err |-> "ValueError", val |-> 0]
        ELSE [err |-> "", val |-> d]

\* ArticleEarningRanking(d) or UserEarningRanking(d) on a given day; the
\* clock may pass midnight between the two reads.  The constructor calls
\* nothing that sends, so reqs stays empty
call_ranking_init(kind, target_date, now1, now2) ==
    LET r == ranking_init(target_date, now1, now2)
    IN  Pure([fn |-> "ranking", kind |-> kind, arg |-> target_date,
              now1 |-> now1, now2 |-> now2, reqs |-> <<>>,
              err |-> r.err, val |-> r.val])

\* User.assets_info from the two answers on: fp_amount is what info gave,
\* assets_amount the number parsed from the profile page, Absent when the
\* pattern finds nothing (IndexError).  Amounts are whole numbers here, which
\* round(x, 3) leaves as they are
assets_info(fp_amount, assets_amount) ==
    IF ~assets_amount.some
    THEN [fp |-> fp_amount, ftn |-> Absent, assets |-> Absent]
    ELSE LET ftn_amount == assets_amount.val - fp_amount
         IN  IF ftn_amount < 0
             THEN [fp |-> fp_amount,
                   ftn |-> Present((assets_amount.val + 500) - fp_amount),
                   assets |-> Present(assets_amount.val + 500)]
             ELSE [fp |-> fp_amount, ftn |-> Present(ftn_amount),
                   assets |-> assets_amount]

\* await user.assets_info, given what the two requests were answered
call_assets_info(fp_amount, assets_amount) ==
    Pure([fn |-> "assets_info", kind |-> "user", arg |-> assets_amount,
          err |-> "", val |-> assets_info(fp_amount, assets_amount)])

\* one call per run: the inputs are drawn, the routine is applied
NextPure ==
    \/ Fresh /\ \E k \in SlugKinds, s \in SlugArgs, u \in UrlArgs :
                    call_check_params(k, s, u)
    \/ Fresh /\ \E k \in Kinds, s \in SlugArgs, u \in UrlArgs :
                    call_legacy_init(k, u, s)
    \/ Fresh /\ \E k \in SlugKinds, x \in Texts : call_slug_to_url(k, x)
    \/ Fresh /\ \E k \in SlugKinds, x \in UrlTexts : call_url_to_slug(k, x)
    \/ Fresh /\ \E i \in (0 - 1)..MaxId : call_notebook_id_to_url(i)
    \/ Fresh /\ \E x \in UrlTexts : call_notebook_url_to_id(x)
    \/ Fresh /\ \E a \in ObjStates, b \in ObjStates : call_eq(a, b)
    \/ Fresh /\ \E x \in PayArgs : call_supported_payment_channels(x)
    \/ Fresh /\ \E a \in LegacyObjs, b \in LegacyObjs : call_legacy_eq(a, b)
    \/ Fresh /\ \E k \in {"article_earning", "user_earning"},
                    d \in {Absent} \cup {Present(x) : x \in (0 - 2)..(MaxDay + 2)},
                    now1 \in 2..MaxDay, now2 \in 2..(MaxDay + 1) :
                    now2 \in {now1, now1 + 1} /\ call_ranking_init(k, d, now1, now2)
    \/ Fresh /\ \E fp \in {0, 100, 400, 1000, 1600},
                    a \in {Absent, Present(0), Present(500), Present(1000)} :
                    call_assets_info(fp, a)

SpecPure == Init /\ [][NextPure]_vars

\* ---------------------------------------------------------- data operations
\* one element of a listing's page, or the payload of a record fetch:
\* its "id" key, one counter key and, for a market order, "pay_types"
Item(id, count, pay_types) == [id |-> id, count |-> count, pay_types |-> pay_types]

WeChatAndCredit == Some(<<"1", "|", "3">>)

good1    == Item(Present(1), Present(0), WeChatAndCredit)
good2    == Item(Present(2), Present(1), Some(<<>>))

\* two well-formed items and, in turn: a negative counter, no counter key,
\* id 0, no id key, no pay_types key
SomeItems ==
    {good1, good2,
     Item(Present(3), Present(0 - 1), WeChatAndCredit),
     Item(Present(3), Absent, WeChatAndCredit),
     Item(Present(0), Present(0), WeChatAndCredit),
     Item(Absent, Present(0), WeChatAndCredit),
     Item(Present(3), Present(0), None)}

\* the pages a server answers with: empty, one item, two items
SomePages ==
    {<<>>} \cup {<<a>> : a \in SomeItems}
           \cup {<<good1, a>> : a \in SomeItems}
           \cup {<<a, good2>> : a \in SomeItems}

\* the operations that yield records from pages
Listings == {"iter_orders", "iter_transactions"}

\* the record constructor call of an operation, up to ._validate(): every
\* subscript of the payload raises KeyError on an absent key; the amount
\* of a transaction goes through abs()
BuildRecord(fn, item) ==
    IF ~item.id.some \/ ~item.count.some THEN Raise("KeyError")
    ELSE LET channels == IF fn = "iter_orders"
                         THEN supported_payment_channels(item.pay_types)
                         ELSE Ok(<<>>)
         IN  IF channels.err # "" THEN channels
             ELSE Ok([id |-> item.id.val,
                      count |-> IF fn = "iter_transactions" /\ item.count.val < 0
                                THEN 0 - item.count.val ELSE item.count.val,
                      channels |-> channels.val])

\* the constraint types of the records' fields
PositiveInt(v)    == v > 0
NonNegativeInt(v) == v >= 0

\* the declared fields of the record an operation builds: TransactionData
\* leaves its amount unconstrained, the others declare a non-negative counter
Satisfies(fn, rec) ==
    /\ PositiveInt(rec.id)
    /\ fn # "iter_transactions" => NonNegativeInt(rec.count)

\* to_builtins(self) and convert(..., type=self.__class__): the fields as
\* plain values, and a record built from them again
to_builtins(rec) == <<rec.id, rec.count, rec.channels>>
convert(b)       == [id |-> b[1], count |-> b[2], channels |-> b[3]]

\* _validate that does not read the policy
ValidateAlways(fn, rec) ==
    IF Satisfies(fn, rec) THEN Ok(convert(to_builtins(rec)))
    ELSE Raise("ValidationError")

\* DataObject._validate
_validate(fn, rec) ==
    IF ~data_validation THEN Ok(rec)
    ELSE IF Satisfies(fn, rec) THEN Ok(convert(to_builtins(rec)))
    ELSE Raise("ValidationError")

\* a request as the transport sees it: the path and the keys it carries
Request(path, page, since_id, max_id, count) ==
    [path |-> path, page |-> page, since_id |-> since_id, max_id |-> max_id,
     count |-> count]

\* an answer: its status, the items of its payload, and for an error answer
\* the shape of its body and the error code embedded in it
Reply(status, page, shape, code) ==
    [status |-> status, page |-> page, shape |-> shape, code |-> code]

PageReply(p)   == Reply("ok", p, "json", 0)
ErrorReply(st) == Reply(st, <<>>, "json", 0)

ListingReplies == {PageReply(p) : p \in SomePages}
                  \cup {ErrorReply(st) : st \in {"status_error", "transport_error"}}

InfoReplies == {PageReply(<<a>>) : a \in SomeItems}
               \cup {ErrorReply(st) : st \in {"status_error", "transport_error"}}

\* the answers to a conversion: a good one with or without a JSON body; a
\* status error whose body is JSON with an error code, or not JSON, or JSON
\* with no "error" key or an empty "error" list; a transport failure
ExchangeReplies ==
    {Reply("ok", <<>>, sh, 0) : sh \in {"json", "not_json"}}
    \cup {Reply(st, <<>>, sh, c) :
            st \in {"action_failed", "status_error"},
            sh \in {"json", "not_json", "no_error_key", "empty_error_list"},
            c \in {18002, 18005, 18001}}
    \cup {ErrorReply("transport_error")}

\* how send_request ends on an answer: raise_for_status, else the payload
SendRequestResult(r) ==
    CASE r.status = "ok"              -> "ok"
      [] r.status = "transport_error" -> "TransportError"
      [] OTHER                        -> "HTTPStatusError"

\* the truth test of an optional number: None and 0 are false
TruthyInt(f) == f.some /\ f.val # 0

DataIdle == gen.fn = "none"

\* the operation sends a request and awaits the answer
Sent(g, req) == [g EXCEPT !.pc = "wait", !.reqs = Append(@, req)]

\* the operation ends: it returns, or raises res
Finished(g, res) == [g EXCEPT !.pc = "done", !.result = res, !.buffer = <<>>]

\* the request at the top of a listing's while loop: iter_transactions
\* sends since_id, and max_id only for a true cursor; iter_orders its page
LoopRequest(g) ==
    IF g.fn = "iter_transactions"
    THEN Request("/asimov/fp_wallets/transactions", Absent,
                 Present(g.args.min_id),
                 IF TruthyInt(g.cursor) THEN g.cursor ELSE Absent, Absent)
    ELSE Request("/getList/furnish.bei", g.cursor, Absent, Absent, Absent)

\* one turn of the for loop: the record of the next item is built and
\* validated, and yielded if both succeed; the generator ends if one raises
YieldNext(g) ==
    LET built == BuildRecord(g.fn, Head(g.buffer))
    IN  IF built.err # "" THEN Finished(g, built.err)
        ELSE LET checked == _validate(g.fn, built.val)
             IN  IF checked.err # "" THEN Finished(g, checked.err)
                 ELSE [g EXCEPT !.pc = "yield", !.buffer = Tail(@),
                                !.yielded = Append(@, checked.val)]

\* a listing that asks for the page it has just got once more
EndOfPageSamePage(g) == Sent(g, LoopRequest(g))

\* the end of the for loop: iter_orders counts its page up, iter_transactions
\* has moved its cursor already; then the loop's next request
EndOfPage(g) ==
    LET h == IF g.fn = "iter_orders"
             THEN [g EXCEPT !.cursor = Present(@.val + 1)] ELSE g
    IN  Sent(h, LoopRequest(h))

\* current_max_id = data["transactions"][-1]["id"], before any item is built
NewCursor(g, page) ==
    IF g.fn # "iter_transactions" THEN Ok(g.cursor)
    ELSE IF ~page[Len(page)].id.some THEN Raise("KeyError")
    ELSE Ok(page[Len(page)].id)

\* a listing that asks for one more page after an empty one
OnPageGoingOn(g, page) ==
    IF Len(page) = 0 THEN EndOfPage(g)
    ELSE YieldNext([g EXCEPT !.buffer = page])

\* a listing got a page: an empty one ends it, else the cursor is taken
\* and the first item is built
OnPage(g, page) ==
    IF Len(page) = 0 THEN Finished(g, "StopAsyncIteration")
    ELSE LET c == NewCursor(g, page)
         IN  IF c.err # "" THEN Finished(g, c.err)
             ELSE YieldNext([g EXCEPT !.cursor = c.val, !.buffer = page])

\* CONFIG.data_validation.enabled = b
SetDataValidation(b) ==
    /\ data_validation # b
    /\ data_validation' = b
    /\ UNCHANGED <<objs, auto_check, force_check_safe_data, tasks, call, gen, net, legacy>>

DataStep(g) ==
    /\ gen' = g
    /\ UNCHANGED <<objs, auto_check, force_check_safe_data, tasks, call,
                   data_validation, net, legacy>>

\* FtnMacket.iter_orders(start_page=...), from the first __anext__ to the
\* first await; Collection.iter_articles and the other page-number listings
\* run the same loop once their object is checked
iter_orders(start_page) ==
    /\ DataIdle
    /\ LET g == [NoGen EXCEPT !.fn = "iter_orders",
                              !.args.start_page = start_page,
                              !.cursor = Present(start_page)]
       IN  DataStep(Sent(g, LoopRequest(g)))

\* Assets.iter_transactions(min_id=..., max_id=...), from the first
\* __anext__ to the first await
iter_transactions(min_id, max_id) ==
    /\ DataIdle
    /\ LET g == [NoGen EXCEPT !.fn = "iter_transactions",
                              !.args.min_id = min_id,
                              !.args.max_id = max_id,
                              !.cursor = max_id]
       IN  DataStep(Sent(g, LoopRequest(g)))

\* a listing resumes with the answer to its request
listing_reply(r) ==
    /\ gen.pc = "wait"
    /\ gen.fn \in Listings
    /\ Len(r.page) > 0 => Len(gen.reqs) <= MaxPage
    /\ LET g == [gen EXCEPT !.replies = Append(@, r)]
       IN  DataStep(IF SendRequestResult(r) # "ok"
                    THEN Finished(g, SendRequestResult(r))
                    ELSE OnPage(g, r.page))

\* __anext__ on a listing suspended at its yield: the next item of the
\* page, or the next request when the page is used up
anext ==
    /\ gen.pc = "yield"
    /\ DataStep(IF Len(gen.buffer) > 0 THEN YieldNext(gen)
                ELSE EndOfPage(gen))

\* Collection.info from its data request on, the object being checked
collection_info ==
    /\ DataIdle
    /\ LET g == [NoGen EXCEPT !.fn = "info"]
       IN  DataStep(Sent(g, Request("/asimov/collections/slug", Absent,
                                    Absent, Absent, Absent)))

\* info resumes with the answer: the record is built, validated, returned
collection_info_reply(r) ==
    /\ gen.pc = "wait"
    /\ gen.fn = "info"
    /\ LET g == [gen EXCEPT !.replies = Append(@, r)]
       IN  DataStep(IF SendRequestResult(r) # "ok"
                    THEN Finished(g, SendRequestResult(r))
                    ELSE LET n == YieldNext([g EXCEPT !.buffer = r.page])
                         IN  IF n.pc = "done" THEN n ELSE Finished(n, "ok"))

\* a conversion that lets an amount of 0 through
AmountRejectedBelowZero(amount) == amount < 0

\* the test before the request of fp_to_ftn and ftn_to_fp
AmountRejected(amount) == amount <= 0

\* the body of fp_to_ftn / ftn_to_fp up to the await
Exchange(fn, path, amount) ==
    /\ DataIdle
    /\ LET g == [NoGen EXCEPT !.fn = fn, !.args.amount = amount]
       IN  DataStep(IF AmountRejected(amount)
                    THEN Finished(g, "ValueError")
                    ELSE Sent(g, Request(path, Absent, Absent, Absent,
                                         Present(amount))))

\* Assets.fp_to_ftn
fp_to_ftn(amount) == Exchange("fp_to_ftn", "/asimov/fp_wallets/exchange_jsb", amount)

\* Assets.ftn_to_fp
ftn_to_fp(amount) == Exchange("ftn_to_fp", "/asimov/fp_wallets/exchange_jsd", amount)

\* the except clause of a conversion: the body is decoded and
\* data["error"][0]["code"] is read only under the action-failed status
ExchangeError(r) ==
    IF r.status # "action_failed" THEN "HTTPStatusError"
    ELSE CASE r.shape = "not_json"         -> "DecodeError"
           [] r.shape = "no_error_key"     -> "KeyError"
           [] r.shape = "empty_error_list" -> "IndexError"
           [] OTHER ->
                IF r.code = 18002 THEN "BalanceNotEnoughError"
                ELSE IF r.code = 18005 THEN "WeeklyConvertLimitExceededError"
                ELSE "HTTPStatusError"

\* how a conversion ends on the answer: DecodeError of a good answer is
\* suppressed, a status error goes through the except clause, any other
\* error passes
ExchangeResult(r) ==
    CASE r.status = "ok"              -> "ok"
      [] r.status = "transport_error" -> "TransportError"
      [] OTHER                        -> ExchangeError(r)

\* fp_to_ftn / ftn_to_fp resumes with the answer
exchange_reply(r) ==
    /\ gen.pc = "wait"
    /\ gen.fn \in {"fp_to_ftn", "ftn_to_fp"}
    /\ DataStep(Finished([gen EXCEPT !.replies = Append(@, r)],
                         ExchangeResult(r)))

\* a caller of one data operation, with the arguments it may pass
NextData ==
    \/ \E b \in BOOLEAN : SetDataValidation(b)
    \/ DataIdle /\ \E p \in 1..MaxPage : iter_orders(p)
    \/ DataIdle /\ \E lo \in {0, 1}, hi \in {Absent, Present(0), Present(MaxId)} :
                      iter_transactions(lo, hi)
    \/ gen.pc = "wait" /\ \E r \in ListingReplies : listing_reply(r)
    \/ anext
    \/ collection_info
    \/ gen.pc = "wait" /\ \E r \in InfoReplies : collection_info_reply(r)
    \/ DataIdle /\ \E a \in {0 - 5, 0, 1, MaxId} : fp_to_ftn(a)
    \/ DataIdle /\ \E a \in {0 - 5, 0, 1, MaxId} : ftn_to_fp(a)
    \/ gen.pc = "wait" /\ \E r \in ExchangeReplies : exchange_reply(r)

SpecData == Init /\ [][NextData]_vars

\* ================================================================= claims
Objs == 1..Len(objs)

\* the step in which a call starts
Starts(t) == tasks[t].pc \in {"idle", "done"} /\ tasks'[t].pc \notin {"idle", "done"}

\* the step in which a data fetch runs its ensure-checked step
StartsFetch(t) == Starts(t) /\ tasks'[t].op \in {"info", "iter"}

\* the step in which an object is built
Builds == Len(objs') = Len(objs) + 1

IsFetch(t) == tasks[t].op \in {"info", "iter"}

\* C1: once an object's checked flag is true it is true in every later
\* state, whatever operation runs (check, fetch, listing, conversion,
\* policy change).
CheckedIsMonotonic ==
    [][\A i \in Objs : objs[i].checked => objs'[i].checked]_vars

\* a check() that failed on an object that was checked already
CheckedSurvivesFailedCheck ==
    \E t \in Tasks :
        /\ tasks[t].op = "check"
        /\ tasks[t].pc = "done"
        /\ tasks[t].result # "ok"
        /\ objs[tasks[t].obj].checked

\* C2: an object built by from_slug, from_url or from_id is unchecked; a
\* check() that returns leaves the flag true; a check() that raises leaves
\* the flag as it was.
CheckSetsFlagOnlyOnSuccess ==
    [][/\ (Builds /\ ~objs'[Len(objs')].safe) => ~objs'[Len(objs')].checked
       /\ \A t \in Tasks :
            (tasks[t].pc = "check_wait" /\ tasks'[t].pc = "done") =>
                IF tasks'[t].result = "ok"
                THEN objs'[tasks[t].obj].checked
                ELSE objs'[tasks[t].obj].checked = objs[tasks[t].obj].checked
      ]_vars

\* a check() that raised on an unchecked object built by the caller
FailedCheckLeftUnchecked ==
    \E t \in Tasks :
        /\ tasks[t].op = "check"
        /\ tasks[t].pc = "done"
        /\ tasks[t].result \in {"ResourceUnavailableError", "TransportError"}
        /\ ~objs[tasks[t].obj].safe
        /\ ~objs[tasks[t].obj].checked

\* C3: every object a record's conversion method returned is checked from
\* the moment it is returned (the flag never falls, so: in every state).
ConvertedObjectsAreChecked ==
    \A i \in Objs : objs[i].safe => objs[i].checked

\* C4: a data fetch whose existence request is answered with the not-found
\* status ends with ResourceUnavailableError and has sent no data request.
UnavailableCheckEndsFetch ==
    \A t \in Tasks :
        ( /\ IsFetch(t)
          /\ Len(tasks[t].replies) >= 1
          /\ tasks[t].reqs[1] = "check"
          /\ tasks[t].replies[1] = "unavailable" )
        => /\ tasks[t].pc = "done"
           /\ tasks[t].result = "ResourceUnavailableError"
           /\ tasks[t].reqs = <<"check">>

\* a listing on an unchecked object whose check was answered not-found
FetchMetUnavailableCheck ==
    \E t \in Tasks :
        /\ tasks[t].op = "iter"
        /\ tasks[t].reqs = <<"check">>
        /\ tasks[t].replies = <<"unavailable">>
        /\ ~objs[tasks[t].obj].checked

\* C5: the ensure-checked step sends the existence request exactly when the
\* object is unchecked and auto_check is on, and otherwise goes straight to
\* the data request; a fetch that skipped the check and is answered with
\* the not-found status ends with the raw HTTPStatusError.
EnsureCheckedIffNeeded ==
    [][\A t \in Tasks :
         /\ StartsFetch(t) =>
              /\ (tasks'[t].reqs = <<"check">>)
                    <=> (~objs[tasks'[t].obj].checked /\ auto_check)
              /\ tasks'[t].reqs \in {<<"check">>, <<"data">>}
         /\ ( /\ IsFetch(t)
              /\ tasks[t].pc = "data_wait"
              /\ tasks[t].reqs = <<"data">>
              /\ tasks'[t].replies = <<"unavailable">> )
            => /\ tasks'[t].pc = "done"
               /\ tasks'[t].result = "HTTPStatusError"
      ]_vars

\* auto_check off, an unchecked object, a fetch answered not-found
UncheckedFetchGotRawError ==
    \E t \in Tasks :
        /\ IsFetch(t)
        /\ ~auto_check
        /\ ~objs[tasks[t].obj].checked
        /\ tasks[t].reqs = <<"data">>
        /\ tasks[t].replies = <<"unavailable">>
        /\ tasks[t].result = "HTTPStatusError"

\* C6, as claimed: while force_check_safe_data and auto_check are on, a data
\* fetch on any record-derived object sends the existence request first.
ForcePolicyRechecksEverySafeObject ==
    [][\A t \in Tasks :
         ( /\ StartsFetch(t)
           /\ objs[tasks'[t].obj].safe
           /\ force_check_safe_data
           /\ auto_check )
         => tasks'[t].reqs = <<"check">>
      ]_vars

\* C6, amended: force_check_safe_data is read when the conversion runs and
\* nowhere else. A conversion that runs while it is on returns an unchecked
\* object; a fetch on a record-derived object sends the existence request
\* exactly when that object is unchecked and auto_check is on, so an object
\* marked checked earlier is not verified again.
ForcePolicyIsReadAtConversion ==
    [][/\ (Builds /\ objs'[Len(objs')].safe /\ force_check_safe_data)
            => ~objs'[Len(objs')].checked
       /\ \A t \in Tasks :
            (StartsFetch(t) /\ objs[tasks'[t].obj].safe) =>
                ((tasks'[t].reqs = <<"check">>)
                    <=> (~objs[tasks'[t].obj].checked /\ auto_check))
      ]_vars

\* both policies on, and a fetch on a record-derived object marked checked
\* earlier went straight to its data request
SafeObjectFetchedUnverified ==
    \E t \in Tasks :
        /\ IsFetch(t)
        /\ tasks[t].pc = "data_wait"
        /\ tasks[t].reqs = <<"data">>
        /\ objs[tasks[t].obj].safe
        /\ objs[tasks[t].obj].checked
        /\ force_check_safe_data
        /\ auto_check

\* does x name a resource of the kind: as a slug, as a URL
ValidSlug(kind, x) ==
    IF kind = "notebook" THEN IsIdText(x) ELSE _slug_check_func(kind, x)
ValidUrl(kind, x)  == AssertUrl(kind, x)

\* C7: building a resource with both a slug and a url, or with neither,
\* fails; with exactly one valid identifier it succeeds and .slug is the
\* slug given, or the slug of the url given. For the jkit validation
\* routine and for the five legacy constructors.
ExactlyOneIdentifier ==
    call.fn \in {"_check_params", "legacy_init"} =>
        /\ (call.slug.some /\ call.url.some) => call.err # ""
        /\ (~call.slug.some /\ ~call.url.some) => call.err # ""
        /\ (call.slug.some /\ ~call.url.some /\ ValidSlug(call.kind, call.slug.val))
              => (call.err = "" /\ call.val = call.slug.val)
        /\ (call.url.some /\ ~call.slug.some /\ ValidUrl(call.kind, call.url.val))
              => ( /\ call.err = ""
                   /\ call.val = LegacyUrlToSlug(call.kind, call.url.val) )

\* C8: url_to_slug(slug_to_url(s)) = s for every valid slug s of every slug
\* kind, notebook_url_to_id(notebook_id_to_url(i)) = i for every valid id
\* i, and each converter raises on an invalid argument.
RoundTrip ==
    /\ call.fn = "slug_to_url" =>
         IF _slug_check_func(call.kind, call.arg)
         THEN /\ call.err = ""
              /\ _url_to_slug_func(call.kind, call.val).err = ""
              /\ _url_to_slug_func(call.kind, call.val).val = call.arg
         ELSE call.err # ""
    /\ call.fn = "id_to_url" =>
         IF is_notebook_id(call.arg)
         THEN /\ call.err = ""
              /\ notebook_url_to_id(call.val).err = ""
              /\ notebook_url_to_id(call.val).val = call.arg
         ELSE call.err # ""
    /\ call.fn \in {"url_to_slug", "url_to_id"} =>
         (~ValidUrl(call.kind, call.arg) => call.err # "")

\* a valid user slug went to its URL
SlugWentToUrl ==
    /\ call.fn = "slug_to_url"
    /\ call.kind = "user"
    /\ call.err = ""
    /\ call.val = <<Host, "/", "u", "/">> \o call.arg

\* C9: two objects of one kind with one identity compare equal and hash
\* equal, whatever their checked flags and histories; two objects of one
\* kind with different identities compare unequal.
EqualObjectsHashEqual ==
    (call.fn = "eq" /\ call.a.kind = call.b.kind) =>
        IF call.a.ident = call.b.ident
        THEN /\ call.eq
             /\ call.hash_a.err = ""
             /\ call.hash_b.err = ""
             /\ call.hash_a.val = call.hash_b.val
        ELSE ~call.eq

\* C10: check, data fetches, listings, conversions and policy changes leave
\* the kind and the identity of every object as construction set them; of
\* an object's fields only the checked flag changes.
IdentityIsFrozen ==
    [][\A i \in Objs :
          objs'[i] = [objs[i] EXCEPT !.checked = objs'[i].checked]]_vars

\* a listing that checked the object and read pages to the end
ListedAfterCheck ==
    \E t \in Tasks :
        /\ tasks[t].op = "iter"
        /\ tasks[t].pc = "done"
        /\ tasks[t].result = "ok"
        /\ tasks[t].reqs = <<"check", "data", "data">>
        /\ objs[tasks[t].obj].checked

\* the answer is a good one with no items
IsEmptyPage(r) == r.status = "ok" /\ Len(r.page) = 0

\* C11: a listing ends when it gets an empty page: the empty page is the
\* last answer it takes, no request follows it and the generator returns;
\* a generator returns only after an empty page; and once a listing has
\* ended it sends nothing and yields nothing more.
EmptyPageEndsListing ==
    [][gen'.fn \in Listings =>
         /\ \A i \in 1..Len(gen'.replies) :
               IsEmptyPage(gen'.replies[i]) =>
                  /\ i = Len(gen'.replies)
                  /\ Len(gen'.reqs) = i
                  /\ gen'.pc = "done"
                  /\ gen'.result = "StopAsyncIteration"
         /\ gen'.result = "StopAsyncIteration" =>
               /\ Len(gen'.replies) > 0
               /\ IsEmptyPage(gen'.replies[Len(gen'.replies)])
         /\ gen.pc = "done" =>
               /\ gen'.reqs = gen.reqs
               /\ gen'.yielded = gen.yielded]_vars

\* a page-number listing that yielded items and then met an empty page
ListingMetEmptyPage ==
    /\ gen.fn = "iter_orders"
    /\ gen.result = "StopAsyncIteration"
    /\ Len(gen.yielded) > 0
    /\ Len(gen.reqs) = 2

\* the items of the pages a listing has got, in the order it got them
RECURSIVE ItemsOf(_)
ItemsOf(replies) ==
    IF Len(replies) = 0 THEN <<>>
    ELSE ItemsOf(SubSeq(replies, 1, Len(replies) - 1))
         \o replies[Len(replies)].page

\* C12: a page-number listing started at start_page asks for start_page,
\* start_page + 1, ... in that order, one request per page; it asks for
\* the next page only when every item of the pages before has been
\* yielded; and what it has yielded is, item for item and in the server's
\* order, the records of the items it has got.
PagesInOrderItemsInOrder ==
    gen.fn = "iter_orders" =>
       LET got == ItemsOf(gen.replies)
       IN  /\ \A i \in 1..Len(gen.reqs) :
                 gen.reqs[i].page = Present(gen.args.start_page + i - 1)
           /\ Len(gen.replies) <= Len(gen.reqs)
           /\ Len(gen.reqs) <= Len(gen.replies) + 1
           /\ Len(gen.yielded) <= Len(got)
           /\ \A k \in 1..Len(gen.yielded) :
                 /\ BuildRecord("iter_orders", got[k]).err = ""
                 /\ gen.yielded[k] = BuildRecord("iter_orders", got[k]).val
           /\ gen.pc = "wait" => Len(gen.yielded) = Len(got)

\* a listing started at page 2 that yielded two full pages and asked for
\* a third
TwoPagesYielded ==
    /\ gen.fn = "iter_orders"
    /\ gen.args.start_page = 2
    /\ Len(gen.reqs) = 3
    /\ Len(gen.yielded) = 4
    /\ gen.yielded[2] # gen.yielded[1]

\* the id of the last item of a page, as the payload carries it
LastId(page) == page[Len(page)].id

\* C13: in Assets.iter_transactions every request carries since_id equal
\* to the caller's min_id; the first request carries the caller's max_id,
\* every later request carries as max_id the id of the last item of the
\* page before it; and the listing ends at the first empty page.
TransactionRequestsCarryCursor ==
    gen.fn = "iter_transactions" =>
       /\ \A i \in 1..Len(gen.reqs) :
             /\ gen.reqs[i].since_id = Present(gen.args.min_id)
             /\ i = 1 => gen.reqs[i].max_id = gen.args.max_id
             /\ i > 1 => gen.reqs[i].max_id = LastId(gen.replies[i - 1].page)
       /\ \A i \in 1..Len(gen.replies) :
             IsEmptyPage(gen.replies[i]) =>
                i = Len(gen.replies) /\ gen.result = "StopAsyncIteration"

\* the item lacks a key its record needs, or its record breaks a constraint
Malformed(fn, item) ==
    \/ BuildRecord(fn, item).err # ""
    \/ ~Satisfies(fn, BuildRecord(fn, item).val)

\* the errors an item of a page can bring about
ItemErrors == {"ValidationError", "KeyError", "ValueError"}

\* C14: with validation enabled a listing yields an item only if it is
\* well formed, and an error over an item is raised exactly when the first
\* malformed item is the one requested: every item before it has been
\* yielded, and nothing is yielded after the error.
MalformedItemFailsWhenReached ==
    [][(data_validation /\ gen'.fn \in Listings) =>
         LET got == ItemsOf(gen'.replies)
             k   == Len(gen'.yielded) + 1
         IN  /\ (gen.result = "" /\ gen'.result \in ItemErrors) =>
                   /\ k <= Len(got)
                   /\ Malformed(gen'.fn, got[k])
             /\ Len(gen'.yielded) > Len(gen.yielded) =>
                   ~Malformed(gen'.fn, got[Len(gen'.yielded)])
             /\ gen.pc = "done" => gen'.yielded = gen.yielded]_vars

\* the payload has no counter key, or a negative number under it
CounterMissingOrNegative(item) == ~item.count.some \/ item.count.val < 0

\* C15: with validation enabled, a record fetch whose payload lacks its
\* non-negative counter, or carries a negative number there, raises
\* ValidationError and returns no record.
BadCounterRaisesValidationError ==
    [][(/\ data_validation
        /\ gen.fn = "info"
        /\ gen.pc = "wait"
        /\ gen'.pc = "done"
        /\ gen'.replies[1].status = "ok"
        /\ CounterMissingOrNegative(gen'.replies[1].page[1])) =>
         /\ gen'.result = "ValidationError"
         /\ gen'.yielded = <<>>]_vars

\* the records the operations build from the items a server can send
SomeRecords ==
    {[fn |-> fn, rec |-> BuildRecord(fn, a).val] :
        fn \in Listings \cup {"info"},
        a \in {b \in SomeItems : BuildRecord("iter_orders", b).err = ""}}

\* what _validate does to every record under the flag as it stands
ValidateObeysFlag ==
    \A x \in SomeRecords :
        LET v == _validate(x.fn, x.rec)
        IN  IF ~data_validation
            THEN v.err = "" /\ v.val = x.rec
            ELSE \/ v.err = "ValidationError"
                 \/ /\ v.err = ""
                    /\ v.val.id = x.rec.id
                    /\ v.val.count = x.rec.count
                    /\ v.val.channels = x.rec.channels

Exchanges == {"fp_to_ftn", "ftn_to_fp"}

\* C17: a conversion called with an amount of 0 or less raises the local
\* ValueError and sends nothing; called with an amount above 0 it sends
\* exactly one request, which carries the amount.
NonPositiveAmountSendsNothing ==
    gen.fn \in Exchanges =>
       IF gen.args.amount <= 0
       THEN /\ gen.pc = "done"
            /\ gen.result = "ValueError"
            /\ gen.reqs = <<>>
            /\ gen.replies = <<>>
       ELSE /\ Len(gen.reqs) = 1
            /\ gen.reqs[1].count = Present(gen.args.amount)
            /\ gen.result # "ValueError"

\* ftn_to_fp(0) has been refused
ZeroAmountRefused ==
    /\ gen.fn = "ftn_to_fp"
    /\ gen.args.amount = 0
    /\ gen.result = "ValueError"
    /\ gen.reqs = <<>>

\* C18: a conversion whose request fails with a status error raises
\* BalanceNotEnoughError for the action-failed status with code 18002,
\* WeeklyConvertLimitExceededError for it with code 18005, and the
\* transport's status error for every other code, status and body.
StatusErrorMapsOrPasses ==
    (/\ gen.fn \in Exchanges
     /\ Len(gen.replies) = 1
     /\ gen.replies[1].status \in {"action_failed", "status_error"}) =>
       LET r     == gen.replies[1]
           coded == r.status = "action_failed" /\ r.shape = "json"
       IN  /\ gen.pc = "done"
           /\ gen.result =
                 IF coded /\ r.code = 18002 THEN "BalanceNotEnoughError"
                 ELSE IF coded /\ r.code = 18005
                 THEN "WeeklyConvertLimitExceededError"
                 ELSE "HTTPStatusError"

\* the place of a channel in the fixed channel order
ChannelIndex(c) == CHOOSE i \in 1..Len(PaymentChannels) : PaymentChannels[i] = c

\* C19: decoding pay_types gives channels of the fixed three-member set,
\* listed in the fixed channel order with none twice; "1|3" gives
\* WECHAT_PAY, ANT_CREDIT_PAY; an empty pay_types and an absent pay_types
\* both give no channels and raise nothing.
PayTypesDecodeInChannelOrder ==
    call.fn = "pay_types" =>
       /\ call.err = "" =>
             /\ \A i \in 1..Len(call.val) :
                   \E k \in 1..Len(PaymentChannels) : PaymentChannels[k] = call.val[i]
             /\ \A i \in 1..Len(call.val) : \A j \in (i + 1)..Len(call.val) :
                   ChannelIndex(call.val[i]) < ChannelIndex(call.val[j])
       /\ call.arg = WeChatAndCredit =>
             call.err = "" /\ call.val = <<"WECHAT_PAY", "ANT_CREDIT_PAY">>
       /\ (~call.arg.some \/ Len(call.arg.val) = 0) =>
             call.err = "" /\ call.val = <<>>

\* the answers that make send_request raise
FailedReplies == {"unavailable", "status_error", "transport_error"}

\* C20: nothing is sent again.  The step in which a call gets a failed
\* answer ends that call with an error and sends no request, so the call
\* has sent as many requests as it got answers, the failed one being the
\* last; and a call that has ended sends nothing more.
FailedRequestIsNotRetried ==
    [][\A t \in Tasks :
          /\ (/\ Len(tasks'[t].replies) = Len(tasks[t].replies) + 1
              /\ tasks'[t].replies[Len(tasks'[t].replies)] \in FailedReplies) =>
                /\ tasks'[t].pc = "done"
                /\ tasks'[t].result \notin {"", "ok"}
                /\ tasks'[t].reqs = tasks[t].reqs
                /\ Len(tasks'[t].reqs) = Len(tasks'[t].replies)
          /\ (tasks[t].pc = "done" /\ ~Starts(t)) => tasks'[t] = tasks[t]]_vars

\* info passed the existence check and then met a failed data request
FetchFailedAfterCheck ==
    \E t \in Tasks :
        /\ tasks[t].op = "info"
        /\ tasks[t].pc = "done"
        /\ tasks[t].reqs = <<"check", "data">>
        /\ tasks[t].replies = <<"ok", "transport_error">>
        /\ tasks[t].result = "TransportError"

\* ------------------------------------------------------------ client pool
NetStep(n) ==
    /\ net' = n
    /\ UNCHANGED <<objs, auto_check, force_check_safe_data, tasks, call,
                   data_validation, gen, legacy>>

\* CONFIG.datasources.<ds>.<name> = value: the attribute is stored first,
\* then a client is built from the config and registered under its name; an
\* error of the client's constructor leaves the registry as it was
setattr(ds, name, value) ==
    /\ net.sets < MaxSets
    /\ LET cfg == [net.config[ds] EXCEPT ![name] = value]
           c   == _get_httpx_client(cfg, net.made + 1)
       IN  NetStep([net EXCEPT
               !.config[ds] = cfg,
               !.sets = @ + 1,
               !.err = c.err,
               !.made = IF c.err = "" THEN @ + 1 ELSE @,
               !.clients[ds] = IF c.err = "" THEN c.val ELSE @])

\* send_request(datasource=ds, ...) up to its await: the client is looked
\* up in DATASOURCE_CLIENTS and asked to send the request
send_request(ds) ==
    /\ Len(net.requests) < MaxReqs
    /\ NetStep([net EXCEPT !.requests =
                   Append(@, [datasource |-> ds, client |-> net.clients[ds],
                              done |-> FALSE])])

\* the response of request i arrives on the client the request was sent on
send_request_reply(i) ==
    /\ i \in 1..Len(net.requests)
    /\ ~net.requests[i].done
    /\ NetStep([net EXCEPT !.requests[i].done = TRUE])

NextNet ==
    \/ \E ds \in Sources, s \in SomeSettings : setattr(ds, s[1], s[2])
    \/ \E ds \in Sources : send_request(ds)
    \/ \E i \in 1..MaxReqs : send_request_reply(i)

SpecNet == Init /\ [][NextNet]_vars

\* is client c one that _get_httpx_client builds from config cfg
BuiltFrom(c, cfg) ==
    /\ c.base_url = cfg.endpoint
    /\ c.http2 = (cfg.http_version = "2")
    /\ c.proxy = cfg.proxy

PooledClientMatchesConfig ==
    /\ [](\A ds \in Sources : BuiltFrom(net.clients[ds], net.config[ds]))
    /\ [][/\ \A i \in 1..Len(net.requests) :
                /\ net'.requests[i].client = net.requests[i].client
                /\ net'.requests[i].datasource = net.requests[i].datasource
          /\ Len(net'.requests) > Len(net.requests) =>
                LET r == net'.requests[Len(net'.requests)]
                IN  r.client = net.clients[r.datasource]]_vars

\* ------------------------------------------------------ concurrent callers
\* two collections built by Collection.from_slug from the same slug, both
\* unchecked, and a caller that runs its coroutines concurrently
InitConc ==
    /\ objs = [i \in 1..2 |-> NewObject("collection", [j \in 1..SlugLen |-> "a"])]
    /\ auto_check = TRUE
    /\ force_check_safe_data = FALSE
    /\ tasks = [t \in Tasks |-> Idle]
    /\ call = NoCall
    /\ data_validation = TRUE
    /\ gen = NoGen
    /\ net = NoNet
    /\ legacy = NoLegacy

\* every coroutine may start an operation on any object while the others
\* wait at their awaits, and the replies arrive in any order
NextConc ==
    \/ \E t \in Tasks, o \in 1..2 : check(t, o)
    \/ \E t \in Tasks, o \in 1..2 : info(t, o)
    \/ \E t \in Tasks, o \in 1..2 : iter_articles(t, o, 1)
    \/ \E t \in Tasks, r \in Replies : check_reply(t, r)
    \/ \E t \in Tasks, r \in Replies : require_check_reply(t, r)
    \/ \E t \in Tasks, r \in Replies : info_reply(t, r)
    \/ \E t \in Tasks, r \in Replies : iter_reply(t, r)

SpecConc == InitConc /\ [][NextConc]_vars

\* C22: whatever the interleaving, a step changes the checked flag or the
\* identity of an object only if a coroutine that is running an operation
\* on that very object takes the step; an object of the same kind and slug
\* that no coroutine is working on stays as it is.
OperationsTouchOwnObjectOnly ==
    [][\A b \in 1..Len(objs) :
          objs'[b] # objs[b] =>
              /\ objs'[b].kind = objs[b].kind
              /\ objs'[b].ident = objs[b].ident
              /\ \E t \in Tasks :
                    /\ tasks[t].obj = b
                    /\ tasks'[t] # tasks[t]
                    /\ \A u \in Tasks \ {t} : tasks'[u] = tasks[u]]_vars

\* one object was verified by a check while a fetch on its twin, of the
\* same kind and slug, was under way; the twin is still unchecked
TwinStillUnchecked ==
    /\ ObjEq(objs[1], objs[2])
    /\ objs[1].checked /\ ~objs[2].checked
    /\ \E t, u \in Tasks :
          /\ tasks[t].op = "check" /\ tasks[t].obj = 1 /\ tasks[t].pc = "done"
          /\ tasks[u].op = "info" /\ tasks[u].obj = 2
          /\ tasks[u].pc = "rc_wait"

\* C24: of two fetches that run concurrently on one unchecked object, at
\* most one sends the existence-check request: never are two coroutines
\* both waiting for the answer to a check that _require_check sent for the
\* same object.
CheckIssuedAtMostOnce ==
    \A t, u \in Tasks :
        (/\ t # u
         /\ tasks[t].obj = tasks[u].obj
         /\ IsFetch(t) /\ IsFetch(u)) =>
            ~(tasks[t].pc = "rc_wait" /\ tasks[u].pc = "rc_wait")

\* C23: fetches run one after another on one object, auto_check on.  A
\* fetch sends a check request only as its first request and a data request
\* only after that check was answered with success; a fetch that follows a
\* call whose check succeeded sends no check; a fetch that follows a fetch
\* whose check failed sends the check again.
CheckOnceThenCached ==
    /\ [](\A t \in Tasks : IsFetch(t) =>
            \A i \in 1..Len(tasks[t].reqs) :
                /\ tasks[t].reqs[i] = "check" => i = 1
                /\ (tasks[t].reqs[1] = "check" /\ i > 1) =>
                       tasks[t].replies[1] = "ok")
    /\ [][\A t \in Tasks :
            (/\ StartsFetch(t)
             /\ auto_check
             /\ tasks[t].pc = "done"
             /\ tasks[t].obj = tasks'[t].obj
             /\ tasks[t].reqs[1] = "check") =>
                /\ tasks[t].replies[1] = "ok" =>
                       tasks'[t].reqs = <<"data">>
                /\ (IsFetch(t) /\ tasks[t].replies[1] \in FailedReplies) =>
                       tasks'[t].reqs = <<"check">>]_vars

\* the object was built unchecked, a check of it succeeded, and the fetch
\* that came next went straight to the data request
SecondFetchSkippedCheck ==
    \E t \in Tasks :
        /\ tasks[t].op = "info"
        /\ tasks[t].reqs = <<"data">>
        /\ objs[tasks[t].obj].checked
        /\ ~objs[tasks[t].obj].safe
        /\ auto_check

\* ------------------------------------------------- legacy cache_result
\* values the decorated function returns: 0 stands for the values Python
\* counts as false (0, False, "", []), the others for any other value;
\* or the function raises
SomeOutcomes == {Ok(0), Ok(1), Ok(2), [err |-> "ResourceError", val |-> 0]}

LegacyStep(l) ==
    /\ legacy' = l
    /\ UNCHANGED <<objs, auto_check, force_check_safe_data, tasks, call,
                   data_validation, gen, net>>

\* the wrapper cache_result returns, called on the User of the given URL;
\* r is what func returns or raises if the wrapper invokes it.  The key is
\* the hash of the object, which is the hash of its URL; the looked-up
\* value is tested for truth
wrapper(url, r) ==
    LET cache_result == legacy.cache_Dict[url]
        n == 1 - legacy.last.n
    IN  IF (cache_result.some /\ cache_result.val # 0) /\ ~legacy.DISABLE_CACHE
        THEN LegacyStep([legacy EXCEPT !.last =
                 [url |-> url, invoked |-> FALSE, err |-> "",
                  val |-> cache_result.val, n |-> n]])
        ELSE LegacyStep([legacy EXCEPT
                 !.last = [url |-> url, invoked |-> TRUE, err |-> r.err,
                           val |-> r.val, n |-> n],
                 !.cache_Dict[url] =
                     IF r.err = "" /\ ~legacy.DISABLE_CACHE
                     THEN Present(r.val) ELSE @])

\* objects.DISABLE_CACHE = b
SetDisableCache(b) ==
    /\ legacy.DISABLE_CACHE # b
    /\ LegacyStep([legacy EXCEPT !.DISABLE_CACHE = b])

NextCache ==
    \/ \E url \in SomeUserUrls, r \in SomeOutcomes : wrapper(url, r)
    \/ \E b \in BOOLEAN : SetDisableCache(b)

SpecCache == Init /\ [][NextCache]_vars

\* the step is a call of the cached method on the object of URL u
CachedCall(u) == legacy'.last.n # legacy.last.n /\ legacy'.last.url = u

\* C26: with DISABLE_CACHE false, a call on an object for whose URL a value
\* is stored, whatever that value, returns the stored value and does not
\* invoke the function; a call that raises leaves the cache as it was.
StoredValueIsReturnedWithoutFetch ==
    [][\A u \in SomeUserUrls :
          (CachedCall(u) /\ ~legacy.DISABLE_CACHE) =>
              /\ legacy.cache_Dict[u].some =>
                    /\ ~legacy'.last.invoked
                    /\ legacy'.last.err = ""
                    /\ legacy'.last.val = legacy.cache_Dict[u].val
              /\ legacy'.last.err # "" =>
                    legacy'.cache_Dict = legacy.cache_Dict]_vars

\* C27: a call made while DISABLE_CACHE is true invokes the function, ends
\* as the function ends and leaves the cache as it was; a call made while
\* it is false on an object for whose URL a value is stored returns that
\* value, whenever it was stored.
DisabledCacheIsBypassedAndKept ==
    [][\A u \in SomeUserUrls :
          CachedCall(u) =>
              /\ legacy.DISABLE_CACHE =>
                    /\ legacy'.last.invoked
                    /\ legacy'.cache_Dict = legacy.cache_Dict
              /\ (~legacy.DISABLE_CACHE /\ legacy.cache_Dict[u].some) =>
                    /\ legacy'.last.err = ""
                    /\ legacy'.last.val = legacy.cache_Dict[u].val]_vars

\* C28: two legacy objects (User, Article, Notebook, Collection, Island)
\* compare equal exactly when they are of one kind and have one URL, two
\* Islands included, and objects that compare equal have equal hashes.
LegacyEqualityFollowsUrl ==
    call.fn = "legacy_eq" =>
        /\ call.eq = (call.a.kind = call.b.kind /\ call.a.url = call.b.url)
        /\ call.eq =>
              /\ call.hash_a.err = "" /\ call.hash_b.err = ""
              /\ call.hash_a.val = call.hash_b.val

\* C29: building an earning ranking for date d succeeds exactly when d is
\* 2020-06-20 or later and before today; an earlier d raises
\* APIUnsupportedError, today or a later d raises ValueError; with no date
\* given d is yesterday; and the constructor sends no request.
RankingDateInRange ==
    call.fn = "ranking" =>
        LET d == IF call.arg.some THEN call.arg.val ELSE call.now1 - 1
        IN  /\ call.reqs = <<>>
            /\ (call.err = "") = (0 <= d /\ d < call.now2)
            /\ call.err = "" => call.val = d
            /\ d < 0 => call.err = "APIUnsupportedError"
            /\ d >= call.now2 => call.err = "ValueError"

\* a ranking built with no date given holds yesterday's date
RankingDefaultedToYesterday ==
    /\ call.fn = "ranking"
    /\ ~call.arg.some
    /\ call.err = ""
    /\ call.val = call.now1 - 1

\* C30: whatever FP amount and whatever total the page gave, assets_info
\* returns either no FTN amount and no total, or an FTN amount that is zero
\* or more and equals the returned total minus the FP amount.
FtnAmountIsNeverNegative ==
    call.fn = "assets_info" =>
        \/ ~call.val.ftn.some /\ ~call.val.assets.some
        \/ /\ call.val.ftn.some /\ call.val.assets.some
           /\ call.val.ftn.val >= 0
           /\ call.val.ftn.val = call.val.assets.val - call.val.fp

====
